---- MODULE Spec2Model ----
(***************************************************************************)
(* Orchestration pipeline of the Domain Analysis API (src/main.py):        *)
(* cache-aside resolution of one email (process_email_analysis), its two   *)
(* HTTP callers (analyze_email, batch_analyze_emails) and the background   *)
(* CSV batch run (process_csv_emails_background) that reports through the  *)
(* chat session (send_chat_message); the session hub (chat_sessions,       *)
(* websocket_endpoint, send_chat_message_endpoint) with its coroutines     *)
(* stepping from await to await; and the email normalizer                  *)
(* (clean_email_dataframe) as a function of the uploaded column.           *)
(*                                                                         *)
(* The analyzer and the BigQuery client are collaborators whose code is    *)
(* not part of main.py.  The store is modelled from its contract: per      *)
(* domain the age in hours of the newest row, or no row.  The payload of a *)
(* row that a read returns (its status) is chosen by the environment when  *)
(* the row is read; every call of a collaborator may also raise.           *)
(***************************************************************************)
EXTENDS Integers, Sequences, FiniteSets, TLC

\* ---------------------------------------------------------------- bounds
MaxEmails == 11          \* longest list handed to a background batch run
MaxReqEmails == 1        \* longest list of a POST /analyze/batch request
MaxRows == 3             \* most rows of an uploaded email column
MaxRaceWork == 1         \* most chat messages, and most emails of an upload, that run beside other work
MaxFairEmails == 3       \* most emails of an upload whose run is followed to its end
MaxChats == 2            \* most chat messages with an email served in one run
MaxMessages == 4         \* most messages and pongs the session hub produces in one run

\* ------------------------------------------------------ program constants
Cadence == 10            \* processed % 10 == 0
ShortWindowHours == 24   \* check_domain_exists(domain, max_age_hours=24)
LongWindowHours == 525600 \* check_domain_exists(domain, max_age_hours=525600)
ResultWindow == 10       \* all_results[-10:]

\* ---------------------------------------------------------------- inputs
Domains == {"x.com", "y.org"}
\* an email is <<local part, domain part>>
Emails == {<<"new", d>> : d \in Domains}
\* scraping_status values the analyzer may report; the first three are the
\* ones the callers count as successful
Statuses == {"success", "success_text", "success_fallback", "failed"}

NoRow == 0 - 1
NoDomain == "none"
NoEmail == <<"none", "none">>
NoResult == [kind |-> "none"]
None == "None"

\* The ages a row is observed at: just written, outside the short window,
\* outside the long window.
NextAge(age) ==
    IF age <= ShortWindowHours THEN ShortWindowHours + 1 ELSE LongWindowHours + 1

VARIABLES
    store,          \* durable store: domain -> age in hours of its newest row, or NoRow
    call,           \* the latest invocation of process_email_analysis
    req,            \* the HTTP request being served by /analyze or /analyze/batch
    bg,             \* locals of process_csv_emails_background
    messages,       \* chat_sessions[session_id].messages of the background run's session
    websocket,      \* chat_sessions[session_id].websocket of that session
    ws_frames,      \* frames the attached websocket accepted from send_json
    chat_sessions,  \* the session table: session id -> ChatSession, or NoSession
    tasks,          \* the coroutines that use the session table, each at its await
    sockets,        \* connection -> frames handed to it by send_json
    notify_calls,   \* how often send_chat_message was called
    upload,         \* the column and the store client handed to clean_email_dataframe
    cleaned,        \* what clean_email_dataframe returned
    chat,           \* locals of send_chat_message_endpoint for the request in progress
    uninserted      \* results obtained from the analysis and not handed to insert_dataframe

hubvars == <<chat_sessions, tasks, sockets, notify_calls>>
normvars == <<upload, cleaned>>
chatvars == <<chat, uninserted>>
vars == <<store, call, req, bg, messages, websocket, ws_frames, hubvars, normvars, chatvars>>

\* ----------------------------------------------------------- collaborators
\* analyzer.extract_domain_from_email(email).domain
extract_domain_from_email(email) == email[2]

\* bq_client.check_domain_exists(domain, max_age_hours)
check_domain_exists(st, domain, max_age_hours) ==
    st[domain] # NoRow /\ st[domain] <= max_age_hours

\* bq_client.query_domain_results(domain, limit=1): the newest row, if any;
\* status is the payload of that row, which an earlier request for another
\* address of the domain wrote
query_domain_results(st, domain, status) ==
    IF st[domain] = NoRow
    THEN << >>
    ELSE << [original_email |-> <<"old", domain>>, extracted_domain |-> domain,
             scraping_status |-> status] >>

\* bq_client.insert_dataframe(df) when it reports success: the rows of df
\* become the newest rows of their domains
insert_dataframe(st, df) ==
    [d \in Domains |->
        IF \E i \in 1..Len(df) : df[i].extracted_domain = d THEN 0 ELSE st[d]]

\* analyzer.analyze_email_domain(email) when it returns: one row
analyze_email_domain(email, status) ==
    << [original_email |-> email, extracted_domain |-> extract_domain_from_email(email),
        scraping_status |-> status] >>

\* ------------------------------------------------------------- conversions
\* dataframe_to_analysis_result: the rows carry no sector columns, so
\* row.get(..., "Can't Say") yields the default
dataframe_to_analysis_result(df, from_cache) ==
    [i \in 1..Len(df) |->
        [original_email |-> df[i].original_email,
         extracted_domain |-> df[i].extracted_domain,
         scraping_status |-> df[i].scraping_status,
         from_cache |-> from_cache,
         real_estate |-> "Can't Say",
         infrastructure |-> "Can't Say",
         industrial |-> "Can't Say"]]

\* (variant: the except branch reports the item as an ordinary failed record)
error_result_plain(email) ==
    [original_email |-> email,
     extracted_domain |-> extract_domain_from_email(email),
     scraping_status |-> "failed",
     from_cache |-> FALSE,
     real_estate |-> "Can't Say",
     infrastructure |-> "Can't Say",
     industrial |-> "Can't Say"]

\* the AnalysisResult batch_analyze_emails builds in its except branch
error_result(email) ==
    [original_email |-> email,
     extracted_domain |-> "error",
     scraping_status |-> "error",
     from_cache |-> FALSE,
     real_estate |-> "Can't Say",
     infrastructure |-> "Can't Say",
     industrial |-> "Can't Say"]

IsSuccessStatus(status) ==
    status \in {"success", "success_text", "success_fallback"}

\* --------------------------------------------------- process_email_analysis
\* The record of one invocation: its arguments, what each step it reached
\* observed (row_age is the age of the domain's newest row at entry), how
\* often it invoked the analysis, and how it ended.
CallNone ==
    [email |-> NoEmail, force_refresh |-> FALSE, domain |-> NoDomain,
     row_age |-> NoRow, checked |-> "skipped", fetched |-> "none", analysed |-> 0,
     inserted |-> "none", converted |-> "none", outcome |-> "none",
     result |-> NoResult]

\* (variants: force_refresh is ignored; the store is never consulted)
ConsultsCacheAlways(force_refresh) == TRUE
ConsultsCacheNever(force_refresh) == FALSE

\* Whether the cached branch is consulted at all: `not force_refresh and ...`
ConsultsCache(force_refresh) == ~force_refresh

\* (variant: a stored record is returned without its cache mark)
CachedFlagUnset == FALSE

\* The flag a record served from the store carries: from_cache=True
CachedFlag == TRUE

\* (variant: an empty fetch after a positive check fails the call)
OnEmptyFetchRaises(c) == [c EXCEPT !.outcome = "raised"]

\* `if not cached_df.empty` is false: control leaves the cached branch and
\* reaches "Perform new analysis"
OnEmptyFetch(c) == [c EXCEPT !.analysed = 1, !.outcome = "awaiting"]

\* process_email_analysis from its entry to its first suspension point (the
\* await of run_in_executor), to its return of a cached record, or to a raise.
\*   x_ok: extract_domain_from_email returns;  chk: "ok" | "raise"
\*   fetch: "rows" | "empty" | "raise";  status: payload of the fetched row
\*   conv_ok: dataframe_to_analysis_result returns
ResolveSync(email, force_refresh, st, x_ok, chk, fetch, status, conv_ok) ==
    LET c0 == [CallNone EXCEPT !.email = email, !.force_refresh = force_refresh,
                               !.outcome = "raised"]
        d  == extract_domain_from_email(email)
        c1 == [c0 EXCEPT !.domain = d, !.row_age = st[d]]
        miss(c) == [c EXCEPT !.analysed = 1, !.outcome = "awaiting"]
    IN  IF ~x_ok THEN c0
        ELSE IF ~ConsultsCache(force_refresh) THEN miss(c1)
        ELSE IF chk = "raise" THEN [c1 EXCEPT !.checked = "raised"]
        ELSE IF ~check_domain_exists(st, d, LongWindowHours)
             THEN miss([c1 EXCEPT !.checked = "false"])
        ELSE LET c2 == [c1 EXCEPT !.checked = "true"]
                 cached_df == IF fetch = "empty" THEN << >>
                              ELSE query_domain_results(st, d, status)
             IN  IF fetch = "raise" THEN [c2 EXCEPT !.fetched = "raised"]
                 ELSE IF cached_df # << >>
                      THEN IF conv_ok
                           THEN [c2 EXCEPT !.fetched = "rows", !.converted = "ok",
                                   !.outcome = "returned",
                                   !.result = dataframe_to_analysis_result(cached_df, CachedFlag)[1]]
                           ELSE [c2 EXCEPT !.fetched = "rows", !.converted = "raised"]
                      ELSE OnEmptyFetch([c2 EXCEPT !.fetched = "empty"])

\* (variant: the result is never handed to the store)
InsertCallsNone(an) == 0

\* How often insert_dataframe is called after the analysis ended with an:
\* once, in the statement that follows the await, when it returned a row
\* (lines 492, 787 and 982); not at all when it raised.
InsertCalls(an) == IF an = "raise" THEN 0 ELSE 1

\* the results not handed to insert_dataframe, after an analysis that ended
\* with an and the statements that follow it
Uninserted(balance, an) ==
    balance + (IF an = "raise" THEN 0 ELSE 1) - InsertCalls(an)

\* (variant: a failed insert fails the call)
AfterInsertFailureRaises(c) == [c EXCEPT !.outcome = "raised"]

\* What becomes of the call when insert_dataframe reports failure:
\* a warning is logged and the call goes on
AfterInsertFailure(c) == c

\* process_email_analysis from the completion of run_in_executor to its return.
\*   an: "raise" or the status of the row the analysis returns
\*   ins: "ok" | "failed" | "raise";  conv_ok as above
\* Yields the call and the store it leaves.
ResolveAsync(c, st, an, ins, conv_ok) ==
    IF an = "raise" THEN [call |-> [c EXCEPT !.outcome = "raised"], store |-> st]
    ELSE LET df == analyze_email_domain(c.email, an)
             c1 == [c EXCEPT !.inserted = ins]
             st1 == IF ins = "ok" THEN insert_dataframe(st, df) ELSE st
             c2 == IF ins = "failed" THEN AfterInsertFailure(c1) ELSE c1
         IN  IF ins = "raise" \/ c2.outcome = "raised"
             THEN [call |-> [c2 EXCEPT !.outcome = "raised"], store |-> st1]
             ELSE IF ~conv_ok
             THEN [call |-> [c2 EXCEPT !.converted = "raised", !.outcome = "raised"],
                   store |-> st1]
             ELSE [call |-> [c2 EXCEPT !.converted = "ok", !.outcome = "returned",
                               !.result = dataframe_to_analysis_result(df, FALSE)[1]],
                   store |-> st1]

\* ------------------------------------------------------------ environment
\* What the collaborators do during the synchronous part of a call: at most
\* one of them raises (nothing runs after a raise), the fetch may come back
\* empty, and a fetched row carries any status.
SyncEnvs ==
    {[x_ok |-> FALSE, chk |-> "ok", fetch |-> "rows", status |-> "success", conv_ok |-> TRUE],
     [x_ok |-> TRUE, chk |-> "raise", fetch |-> "rows", status |-> "success", conv_ok |-> TRUE],
     [x_ok |-> TRUE, chk |-> "ok", fetch |-> "raise", status |-> "success", conv_ok |-> TRUE],
     [x_ok |-> TRUE, chk |-> "ok", fetch |-> "empty", status |-> "success", conv_ok |-> TRUE],
     [x_ok |-> TRUE, chk |-> "ok", fetch |-> "rows", status |-> "success", conv_ok |-> FALSE]}
    \cup {[x_ok |-> TRUE, chk |-> "ok", fetch |-> "rows", status |-> s, conv_ok |-> TRUE] :
             s \in Statuses}

\* The same for the part after the analysis: the analysis raises, or returns
\* a row of any status; the insert succeeds, reports failure or raises; the
\* conversion returns or raises.
AsyncEnvs ==
    {[an |-> "raise", ins |-> "ok", conv_ok |-> TRUE],
     [an |-> "success", ins |-> "raise", conv_ok |-> TRUE],
     [an |-> "success", ins |-> "ok", conv_ok |-> FALSE],
     [an |-> "success", ins |-> "failed", conv_ok |-> FALSE]}
    \cup {[an |-> s, ins |-> i, conv_ok |-> TRUE] : s \in Statuses, i \in {"ok", "failed"}}

\* Time passes: the newest row of a domain leaves the next window.
Tick(d) ==
    /\ store[d] # NoRow
    /\ store[d] <= LongWindowHours
    /\ store' = [store EXCEPT ![d] = NextAge(@)]
    /\ UNCHANGED <<hubvars, normvars, call, req, bg, messages, websocket, ws_frames, chatvars>>

\* ------------------------------------------------------- POST /analyze
NoResponse == [status_code |-> 0]

ReqNone ==
    [endpoint |-> "none", pc |-> "idle", n |-> 0, force_refresh |-> FALSE,
     results |-> << >>, successful |-> 0, failed |-> 0, from_cache |-> 0,
     response |-> NoResponse]

\* analyze_email: the record of the call, or HTTPException(status_code=500)
AnalyzeResponse(c) ==
    IF c.outcome = "returned" THEN [status_code |-> 200, body |-> c.result]
    ELSE IF c.outcome = "raised" THEN [status_code |-> 500, body |-> [detail |-> "Analysis failed"]]
    ELSE NoResponse

\* analyze_email up to the await inside process_email_analysis, or to its response
AnalyzeEmail(email, force_refresh) ==
    /\ req.pc = "idle"
    /\ \E e \in SyncEnvs :
         LET c == ResolveSync(email, force_refresh, store, e.x_ok, e.chk, e.fetch, e.status, e.conv_ok)
         IN  /\ call' = c
             /\ req' = [ReqNone EXCEPT !.endpoint = "analyze",
                                       !.force_refresh = force_refresh,
                                       !.pc = IF c.outcome = "awaiting" THEN "await" ELSE "idle",
                                       !.response = AnalyzeResponse(c)]
    /\ UNCHANGED <<hubvars, normvars, store, bg, messages, websocket, ws_frames, chatvars>>

\* analyze_email from the completion of the analysis to its response
AnalyzeEmailResume ==
    /\ req.endpoint = "analyze"
    /\ req.pc = "await"
    /\ \E e \in AsyncEnvs :
         LET r == ResolveAsync(call, store, e.an, e.ins, e.conv_ok)
         IN  /\ call' = r.call
             /\ store' = r.store
             /\ uninserted' = Uninserted(uninserted, e.an)
             /\ req' = [req EXCEPT !.pc = "idle", !.response = AnalyzeResponse(r.call)]
    /\ UNCHANGED <<hubvars, normvars, bg, messages, websocket, ws_frames, chat>>

\* ------------------------------------------------- POST /analyze/batch
\* the body of the for loop of batch_analyze_emails after the call returned
\* or raised
BatchCount(r, c) ==
    IF c.outcome = "returned"
    THEN [r EXCEPT !.pc = "loop",
                   !.results = Append(@, c.result),
                   !.successful = IF IsSuccessStatus(c.result.scraping_status) THEN @ + 1 ELSE @,
                   !.failed = IF IsSuccessStatus(c.result.scraping_status) THEN @ ELSE @ + 1,
                   !.from_cache = IF c.result.from_cache THEN @ + 1 ELSE @]
    ELSE [r EXCEPT !.pc = "loop",
                   !.failed = @ + 1,
                   !.results = Append(@, error_result(c.email))]

\* batch_analyze_emails is entered with a list of n emails
BatchAnalyze(n, force_refresh) ==
    /\ req.pc = "idle"
    /\ req' = [ReqNone EXCEPT !.endpoint = "batch", !.pc = "loop", !.n = n,
                              !.force_refresh = force_refresh]
    /\ call' = CallNone
    /\ UNCHANGED <<hubvars, normvars, store, bg, messages, websocket, ws_frames, chatvars>>

\* one iteration of the loop, up to the await inside process_email_analysis
\* or to the end of the iteration
BatchItemBegin(email) ==
    /\ req.endpoint = "batch"
    /\ req.pc = "loop"
    /\ Len(req.results) < req.n
    /\ \E e \in SyncEnvs :
         LET c == ResolveSync(email, req.force_refresh, store, e.x_ok, e.chk, e.fetch, e.status, e.conv_ok)
         IN  /\ call' = c
             /\ req' = IF c.outcome = "awaiting" THEN [req EXCEPT !.pc = "await"]
                       ELSE BatchCount(req, c)
    /\ UNCHANGED <<hubvars, normvars, store, bg, messages, websocket, ws_frames, chatvars>>

\* the rest of the iteration once the analysis completes
BatchItemResume ==
    /\ req.endpoint = "batch"
    /\ req.pc = "await"
    /\ \E e \in AsyncEnvs :
         LET r == ResolveAsync(call, store, e.an, e.ins, e.conv_ok)
         IN  /\ call' = r.call
             /\ store' = r.store
             /\ uninserted' = Uninserted(uninserted, e.an)
             /\ req' = BatchCount(req, r.call)
    /\ UNCHANGED <<hubvars, normvars, bg, messages, websocket, ws_frames, chat>>

\* the BatchAnalysisResult returned after the loop
BatchRespond ==
    /\ req.endpoint = "batch"
    /\ req.pc = "loop"
    /\ Len(req.results) = req.n
    /\ req' = [req EXCEPT !.pc = "idle",
                          !.response = [status_code |-> 200,
                                        body |-> [results |-> req.results,
                                                  total_processed |-> req.n,
                                                  successful |-> req.successful,
                                                  failed |-> req.failed,
                                                  from_cache |-> req.from_cache]]]
    /\ UNCHANGED <<hubvars, normvars, store, call, bg, messages, websocket, ws_frames, chatvars>>


\* ---------------------------------------------------------- chat session
\* send_chat_message: session.add_message(content, "system", metadata), then
\* send_json on the attached websocket; a failing push is logged and dropped.
\* Yields the log and the frames the websocket has accepted.
send_chat_message(log, ws, frames, content, push_ok) ==
    [messages |-> Append(log, [message_type |-> "system", content |-> content]),
     ws_frames |-> IF ws # None /\ push_ok THEN Append(frames, content) ELSE frames]

\* ------------------------------------------ process_csv_emails_background
\* bg holds the locals of the run: the loop position i (items handled so
\* far), the email being analysed and the counters; faults counts the items
\* that ended in the per-item except branch; unyielded tells that the item
\* handled last was handled without the coroutine reaching an await.
\* all_results holds the results in the order they were produced, each
\* written as its number in that order.
BgNone ==
    [pc |-> "none", total_emails |-> 0, i |-> 0, email |-> NoEmail,
     processed |-> 0, successful |-> 0, duplicates |-> 0, failed |-> 0,
     faults |-> 0, unyielded |-> FALSE, all_results |-> << >>]

\* (variant: a progress message after every analysed item)
ProgressDueAlways(processed, total_emails) == TRUE

\* `if processed % 10 == 0 or processed == total_emails`
ProgressDue(processed, total_emails) ==
    processed % Cadence = 0 \/ processed = total_emails

ProgressMsg(b) ==
    [kind |-> "progress", processed |-> b.processed, total |-> b.total_emails,
     successful |-> b.successful, failed |-> b.failed, duplicates |-> b.duplicates]

\* (variant: the summary carries the first results of the run)
FirstResults(all_results) ==
    SubSeq(all_results, 1, IF Len(all_results) > ResultWindow THEN ResultWindow
                           ELSE Len(all_results))

\* all_results[-10:]
LastResults(all_results) ==
    SubSeq(all_results,
           IF Len(all_results) > ResultWindow THEN Len(all_results) - ResultWindow + 1 ELSE 1,
           Len(all_results))

FinalMsg(b) ==
    [kind |-> "final", processed |-> b.processed, total |-> b.total_emails,
     successful |-> b.successful, failed |-> b.failed, duplicates |-> b.duplicates,
     results |-> LastResults(b.all_results)]

\* (variant: a skipped duplicate is not counted as processed)
ItemDuplicateUncounted(b) ==
    [b EXCEPT !.duplicates = @ + 1,
              !.i = @ + 1, !.pc = "loop", !.email = NoEmail]

\* the `if check_domain_exists(...)` branch: count and `continue`
ItemDuplicate(b) ==
    [b EXCEPT !.duplicates = @ + 1, !.processed = @ + 1,
              !.i = @ + 1, !.pc = "loop", !.email = NoEmail]

\* (variants: the except branch ends the run; it counts the item twice)
ItemFaultedAborts(b) ==
    [b EXCEPT !.failed = @ + 1, !.processed = @ + 1,
              !.i = @ + 1, !.pc = "done", !.email = NoEmail, !.faults = @ + 1]
ItemFaultedTwice(b) ==
    [b EXCEPT !.failed = @ + 1, !.processed = @ + 2,
              !.i = @ + 1, !.pc = "loop", !.email = NoEmail, !.faults = @ + 1]

\* (variant: the exception of an item escapes the coroutine)
ItemFaultedEscapes(b) ==
    [b EXCEPT !.failed = @ + 1, !.processed = @ + 1,
              !.i = @ + 1, !.pc = "escaped", !.email = NoEmail, !.faults = @ + 1]

\* the per-item `except Exception` branch
ItemFaulted(b) ==
    [b EXCEPT !.failed = @ + 1, !.processed = @ + 1,
              !.i = @ + 1, !.pc = "loop", !.email = NoEmail, !.faults = @ + 1]

\* the counting after an analysis whose row has the given status
ItemAnalysed(b, status) ==
    [b EXCEPT !.successful = IF IsSuccessStatus(status) THEN @ + 1 ELSE @,
              !.failed = IF IsSuccessStatus(status) THEN @ ELSE @ + 1,
              !.processed = @ + 1,
              !.all_results = Append(@, Len(@) + 1),
              !.i = @ + 1, !.pc = "loop", !.email = NoEmail]

\* upload_csv_file with a list of n new emails: the summary message, then
\* asyncio.create_task(process_csv_emails_background(...))
UploadCsv(n) ==
    /\ bg.pc = "none"
    /\ \E push_ok \in BOOLEAN :
         LET m == send_chat_message(messages, websocket, ws_frames,
                                    [kind |-> "summary", total |-> n], push_ok)
         IN  /\ messages' = m.messages
             /\ ws_frames' = m.ws_frames
    /\ bg' = [BgNone EXCEPT !.pc = "loop", !.total_emails = n]
    /\ UNCHANGED <<hubvars, normvars, store, call, req, websocket, chatvars>>

BgSyncEnvs == {"x_raise", "chk_raise", "ok"}

\* one iteration of the loop up to `continue`, to the except branch, or to
\* the await of run_in_executor
BgItemBegin(email) ==
    /\ bg.pc = "loop"
    /\ bg.i < bg.total_emails
    /\ \E e \in BgSyncEnvs :
         bg' = IF e # "ok" THEN [ItemFaulted(bg) EXCEPT !.unyielded = TRUE]
               ELSE IF check_domain_exists(store, extract_domain_from_email(email),
                                           ShortWindowHours)
                    THEN [ItemDuplicate(bg) EXCEPT !.unyielded = TRUE]
                    ELSE [bg EXCEPT !.pc = "analyzing", !.email = email]
    /\ UNCHANGED <<hubvars, normvars, store, call, req, messages, websocket, ws_frames, chatvars>>

\* the rest of the iteration once the analysis completes: insert, convert,
\* count, and the progress message when one is due
BgItemResume ==
    /\ bg.pc = "analyzing"
    /\ \E e \in AsyncEnvs, push_ok \in BOOLEAN :
         LET df == analyze_email_domain(bg.email, e.an)
             st1 == IF e.an # "raise" /\ e.ins = "ok" THEN insert_dataframe(store, df) ELSE store
             faulted == e.an = "raise" \/ e.ins = "raise" \/ ~e.conv_ok
             b == IF faulted THEN ItemFaulted(bg)
                  ELSE ItemAnalysed(bg, dataframe_to_analysis_result(df, FALSE)[1].scraping_status)
             m == send_chat_message(messages, websocket, ws_frames, ProgressMsg(b), push_ok)
             notify == ~faulted /\ ProgressDue(b.processed, b.total_emails)
         IN  /\ store' = st1
             /\ uninserted' = Uninserted(uninserted, e.an)
             /\ bg' = [b EXCEPT !.unyielded = FALSE]
             /\ messages' = IF notify THEN m.messages ELSE messages
             /\ ws_frames' = IF notify THEN m.ws_frames ELSE ws_frames
    /\ UNCHANGED <<hubvars, normvars, call, req, websocket, chat>>

\* after the loop: the final summary
BgFinal ==
    /\ bg.pc = "loop"
    /\ bg.i = bg.total_emails
    /\ \E push_ok \in BOOLEAN :
         LET m == send_chat_message(messages, websocket, ws_frames, FinalMsg(bg), push_ok)
         IN  /\ messages' = m.messages
             /\ ws_frames' = m.ws_frames
    /\ bg' = [bg EXCEPT !.pc = "done"]
    /\ UNCHANGED <<hubvars, normvars, store, call, req, websocket, chatvars>>

\* --------------------------------------------------- clean_email_dataframe
\* A cell of the email column is a text, written as the sequence of its
\* characters, or the float NaN that pandas stores for an absent cell.
NaN == <<"NaN">>
Txt_fb == <<"f", "@", "b", ".", "c", "o">>
Txt_gb == <<"g", "@", "b", ".", "c", "o">>
Txt_xy == <<"x", "@", "y", ".", "c", "o">>
Cells ==
    { NaN,
      << >>,
      <<"n", "u", "l", "l">>,
      Txt_fb,
      <<" ", "F", "@", "B", ".", "c", "o", " ">>,
      <<"<", "f", " ", "@", "b", ".", "c", "o", ">">>,
      Txt_gb,
      <<"m", "a", "i", "l", "t", "o", ":">> \o Txt_xy,
      <<"f", "@", "b", ".", "c">>,
      <<"b", "a", "d">> }

Whitespace == {" "}
UpperCase == {"F", "B"}
LowerCase == {"a", "b", "c", "d", "f", "g", "i", "l", "m", "n", "o", "t", "u", "x", "y"}
Letters == LowerCase \cup UpperCase
LocalChars == Letters \cup {".", "_", "%", "+", "-"}
DomainChars == Letters \cup {".", "-"}
MailtoPrefix == <<"m", "a", "i", "l", "t", "o", ":">>

\* the domains check_multiple_domains_exist may report as stored
NormDomains == {<<"b", ".", "c", "o">>, <<"y", ".", "c", "o">>}

NoClient == [kind |-> "none"]
BqClients ==
    {NoClient, [kind |-> "raises"]}
        \cup {[kind |-> "answers", existing |-> S] : S \in SUBSET NormDomains}

NoUpload == [kind |-> "none"]
NoOutput == [kind |-> "none"]

\* df[email_column].astype(str)
astype_str(cell) == IF cell = NaN THEN <<"n", "a", "n">> ELSE cell

\* .replace(['nan', 'NaN', 'None', 'null', ''], pd.NA)
MissingTexts ==
    { <<"n", "a", "n">>, <<"N", "a", "N">>, <<"N", "o", "n", "e">>,
      <<"n", "u", "l", "l">>, << >> }

\* (variant: only cells that were absent in the file are counted)
isna_sum_native(column) == Cardinality({i \in 1..Len(column) : column[i] = NaN})

\* emails_series.isna().sum() after the replacement
isna_sum(column) ==
    Cardinality({i \in 1..Len(column) : astype_str(column[i]) \in MissingTexts})

\* .dropna() after the replacement
dropna(column) ==
    SelectSeq([i \in 1..Len(column) |-> astype_str(column[i])],
              LAMBDA t : t \notin MissingTexts)

\* .str.strip()
RECURSIVE str_strip(_)
str_strip(t) ==
    IF t = << >> THEN t
    ELSE IF Head(t) \in Whitespace THEN str_strip(Tail(t))
    ELSE IF t[Len(t)] \in Whitespace THEN str_strip(SubSeq(t, 1, Len(t) - 1))
    ELSE t

\* .str.replace(r'\s+', '', regex=True)
remove_whitespace(t) == SelectSeq(t, LAMBDA ch : ch \notin Whitespace)

\* .str.lower()
str_lower(t) ==
    [i \in 1..Len(t) |->
        CASE t[i] = "F" -> "f"
          [] t[i] = "B" -> "b"
          [] OTHER -> t[i]]

\* .str.replace(r'^mailto:', '', regex=True)
remove_mailto(t) ==
    IF Len(t) >= Len(MailtoPrefix) /\ SubSeq(t, 1, Len(MailtoPrefix)) = MailtoPrefix
    THEN SubSeq(t, Len(MailtoPrefix) + 1, Len(t))
    ELSE t

\* .str.replace(r'[<>]', '', regex=True)
remove_brackets(t) == SelectSeq(t, LAMBDA ch : ch \notin {"<", ">"})

\* the cleaning chain of lines 90-96, in the order of the code
clean_text(t) ==
    remove_brackets(remove_mailto(str_lower(remove_whitespace(str_strip(t)))))

\* email_pattern = ^[a-zA-Z0-9._%+-]+@[a-zA-Z0-9.-]+\.[a-zA-Z]{2,}$
email_pattern(t) ==
    \E at \in 1..Len(t), dot \in 1..Len(t) :
        /\ at > 1
        /\ t[at] = "@"
        /\ \A i \in 1..(at - 1) : t[i] \in LocalChars
        /\ dot > at + 1
        /\ t[dot] = "."
        /\ \A i \in (at + 1)..(dot - 1) : t[i] \in DomainChars
        /\ Len(t) - dot >= 2
        /\ \A i \in (dot + 1)..Len(t) : t[i] \in Letters

\* emails_series[valid_mask].tolist()
valid_emails(column) ==
    SelectSeq([i \in 1..Len(dropna(column)) |-> clean_text(dropna(column)[i])],
              email_pattern)

\* the order-preserving loop over valid_emails with the `seen` set
RECURSIVE unique_loop(_, _, _)
unique_loop(emails, seen, unique_emails) ==
    IF emails = << >> THEN unique_emails
    ELSE IF Head(emails) \in seen
         THEN unique_loop(Tail(emails), seen, unique_emails)
         ELSE unique_loop(Tail(emails), seen \cup {Head(emails)},
                          Append(unique_emails, Head(emails)))

\* (variant: every valid email is kept)
remove_duplicates_none(valid) == valid

\* lines 105-115: seen = set(); unique_emails = []; the loop
remove_duplicates(valid) == unique_loop(valid, {}, << >>)

\* email.split('@')[1]
split_domain(email) ==
    LET at == CHOOSE i \in 1..Len(email) :
                  email[i] = "@" /\ \A j \in 1..(i - 1) : email[j] # "@"
        rest == SubSeq(email, at + 1, Len(email))
        ends == {i \in 1..Len(rest) : rest[i] = "@"}
    IN  IF ends = {} THEN rest
        ELSE SubSeq(rest, 1, (CHOOSE i \in ends : \A j \in ends : i <= j) - 1)

\* existing_domains.get(domain, False) over the answer of
\* check_multiple_domains_exist
domain_exists(bq_client, domain) == domain \in bq_client.existing

\* (variant: a failing query leaves nothing to process)
on_query_failure_empty(unique_emails) == << >>

\* `except Exception`: final_emails = unique_emails
on_query_failure(unique_emails) == unique_emails

\* lines 44-152 for the detected email column
clean_email_dataframe(column, bq_client) ==
    LET emails_series == dropna(column)
        valid == valid_emails(column)
        unique_emails == remove_duplicates(valid)
        filtering == bq_client.kind # "none" /\ unique_emails # << >>
        failed == filtering /\ bq_client.kind = "raises"
        new_emails ==
            SelectSeq(unique_emails,
                      LAMBDA e : ~domain_exists(bq_client, split_domain(e)))
        final_emails ==
            IF ~filtering THEN unique_emails
            ELSE IF failed THEN on_query_failure(unique_emails)
            ELSE new_emails
    IN  [kind |-> "returned",
         final_emails |-> final_emails,
         stats |->
            [total_rows |-> Len(column),
             empty_rows |-> isna_sum(column),
             valid_emails |-> Len(unique_emails),
             invalid_emails |-> Len(emails_series) - Len(valid),
             duplicates_removed |-> Len(valid) - Len(unique_emails),
             bigquery_duplicates |->
                IF filtering /\ ~failed THEN Len(unique_emails) - Len(new_emails) ELSE 0,
             new_emails |-> Len(final_emails)]]

\* the email columns of at most MaxRows rows
Columns == UNION {[1..n -> Cells] : n \in 0..MaxRows}

\* upload_csv_file calls clean_email_dataframe(df, bq_client)
Normalize ==
    /\ upload # NoUpload
    /\ cleaned = NoOutput
    /\ cleaned' = clean_email_dataframe(upload.column, upload.bq_client)
    /\ UNCHANGED <<store, call, req, bg, messages, websocket, ws_frames, hubvars, upload, chatvars>>

\* ------------------------------------------------------------ session hub
\* chat_sessions is the dict of line 374: a function whose domain is the
\* set of session ids referenced so far.  A connection of Conns is one
\* WebSocket object; sockets[c] is the sequence of frames handed to it by
\* send_json.  A call of send_json hands its frame over when it is called
\* and the caller's await ends in a later step, by returning or by raising.
\* Whether the connection takes the frame is the environment's choice.
SessionIds == {"s1", "s2"}
Conns == {"c1", "c2"}
Notifiers == {"batch", "chat"}
TaskIds == Conns \cup Notifiers
NoSessionId == "none"
NoSend == [to |-> None, frame |-> [type |-> "none"], ok |-> FALSE]
Pong == [type |-> "pong"]

\* ChatSession.__init__; uid stands for the identity of the object
ChatSession(uid) == [uid |-> uid, messages |-> << >>, websocket |-> None]

\* (variant: every reference builds a new session)
get_or_create_session_fresh(table, session_id) ==
    [s \in DOMAIN table \cup {session_id} |->
        IF s = session_id THEN ChatSession(Cardinality(DOMAIN table) + 1) ELSE table[s]]

\* get_or_create_session
get_or_create_session(table, session_id) ==
    IF session_id \notin DOMAIN table
    THEN [s \in DOMAIN table \cup {session_id} |->
            IF s = session_id THEN ChatSession(Cardinality(DOMAIN table) + 1) ELSE table[s]]
    ELSE table

RECURSIVE LogLengths(_, _)
LogLengths(table, S) ==
    IF S = {} THEN 0
    ELSE LET s == CHOOSE x \in S : TRUE
         IN  Len(table[s].messages) + LogLengths(table, S \ {s})

\* messages created so far; message_id (uuid4) is modelled by creation order
TotalMessages(table) == LogLengths(table, DOMAIN table)

ChatMessage(table, message_type, content) ==
    [message_id |-> TotalMessages(table) + 1,
     message_type |-> message_type, content |-> content]

\* (variant: the new message takes the place of the newest one)
add_message_lossy(table, session_id, message_type, content) ==
    [table EXCEPT ![session_id].messages =
        IF @ = << >> THEN <<ChatMessage(table, message_type, content)>>
        ELSE [@ EXCEPT ![Len(@)] = ChatMessage(table, message_type, content)]]

\* (variant: the new message is put in front)
add_message_front(table, session_id, message_type, content) ==
    [table EXCEPT ![session_id].messages =
        <<ChatMessage(table, message_type, content)>> \o @]

\* ChatSession.add_message
add_message(table, session_id, message_type, content) ==
    [table EXCEPT ![session_id].messages =
        Append(@, ChatMessage(table, message_type, content))]

\* ChatResponse(...).dict() of a logged message
ChatResponse(message) ==
    [type |-> "message", message_id |-> message.message_id,
     content |-> message.content]

\* (variant: the frame reaches the connection only when the await ends)
HandoverOnResume(frames, frame, at) ==
    IF at = "resume" THEN Append(frames, frame) ELSE frames

\* websocket.send_json(frame): the frame is handed to the connection in the
\* step of the call ("call"), nothing more happens when the await ends
\* ("resume")
Handover(frames, frame, at) ==
    IF at = "call" THEN Append(frames, frame) ELSE frames

\* (variant: a failed push is raised to the caller)
AfterPushRaised(ok, back) == IF ok THEN back ELSE "raised"

\* `except Exception: logger.error(...)`, then `return message`: where the
\* caller continues after the push
AfterPush(ok, back) == back

\* send_chat_message up to its await: the table, the sockets and what the
\* caller awaits (NoSend when no websocket is attached)
send_chat_message_call(table, socks, session_id, content, accept) ==
    LET t1 == get_or_create_session(table, session_id)
        t2 == add_message(t1, session_id, "system", content)
        frame == ChatResponse(ChatMessage(t1, "system", content))
        ws == t2[session_id].websocket
    IN  [chat_sessions |-> t2,
         sockets |-> IF ws # None /\ accept
                     THEN [socks EXCEPT ![ws] = Handover(@, frame, "call")]
                     ELSE socks,
         awaiting |-> IF ws # None THEN [to |-> ws, frame |-> frame, ok |-> accept]
                      ELSE NoSend]

\* the caller of send_chat_message after the call: suspended in the await,
\* or already past it when nothing was pushed
AfterCall(task, session_id, m, back) ==
    IF m.awaiting = NoSend
    THEN [task EXCEPT !.pc = back]
    ELSE [task EXCEPT !.pc = "sending", !.awaiting = m.awaiting]

\* (variant: the handle is stored only when none is stored)
attach_if_absent(table, session_id, c) ==
    IF table[session_id].websocket = None
    THEN [table EXCEPT ![session_id].websocket = c] ELSE table

\* `session.websocket = websocket`
attach(table, session_id, c) == [table EXCEPT ![session_id].websocket = c]

\* (variant: a disconnect clears the handle of every session)
detach_all(table, session_id) ==
    [s \in DOMAIN table |-> [table[s] EXCEPT !.websocket = None]]

\* `if session_id in chat_sessions: chat_sessions[session_id].websocket = None`
detach(table, session_id) ==
    IF session_id \in DOMAIN table
    THEN [table EXCEPT ![session_id].websocket = None] ELSE table

\* (variant: the pong is sent as a logged notification)
on_ping_logged(table, socks, c, session_id, accept) ==
    [chat_sessions |-> add_message(table, session_id, "system", "pong"),
     sockets |-> IF accept THEN [socks EXCEPT ![c] = Handover(@, Pong, "call")] ELSE socks]

\* `await websocket.send_json({"type": "pong"})`
on_ping(table, socks, c, session_id, accept) ==
    [chat_sessions |-> table,
     sockets |-> IF accept THEN [socks EXCEPT ![c] = Handover(@, Pong, "call")] ELSE socks]

\* messages logged and pongs handed over so far
Produced ==
    TotalMessages(chat_sessions)
        + Cardinality({<<c, i>> \in Conns \X (1..MaxMessages) :
                          i <= Len(sockets[c]) /\ sockets[c][i] = Pong})

\* Connections are named in the order they are accepted and session ids in
\* the order they are first referenced.
InOrder(c, session_id) ==
    /\ c = "c2" => tasks["c1"].pc # "new"
    /\ session_id = "s2" => "s1" \in DOMAIN chat_sessions

\* websocket_endpoint from accept() to the await inside the welcome message
WsConnect(c, session_id) ==
    /\ tasks[c].pc = "new"
    /\ InOrder(c, session_id)
    /\ Produced < MaxMessages
    /\ \E accept \in BOOLEAN :
         LET t1 == attach(get_or_create_session(chat_sessions, session_id), session_id, c)
             m == send_chat_message_call(t1, sockets, session_id, "welcome", accept)
         IN  /\ chat_sessions' = m.chat_sessions
             /\ sockets' = m.sockets
             /\ tasks' = [tasks EXCEPT ![c] = AfterCall([@ EXCEPT !.session = session_id],
                                                        session_id, m, "loop")]
    /\ notify_calls' = notify_calls + 1
    /\ UNCHANGED <<store, call, req, bg, messages, websocket, ws_frames, normvars, chatvars>>

\* the await of send_json inside send_chat_message ends
SendResume(t) ==
    /\ tasks[t].pc = "sending"
    /\ sockets' = IF tasks[t].awaiting.ok
                  THEN [sockets EXCEPT ![tasks[t].awaiting.to] =
                            Handover(@, tasks[t].awaiting.frame, "resume")]
                  ELSE sockets
    /\ tasks' = [tasks EXCEPT ![t].pc = AfterPush(tasks[t].awaiting.ok,
                                                  IF t \in Conns THEN "loop" ELSE "idle"),
                              ![t].awaiting = NoSend]
    /\ UNCHANGED <<store, call, req, bg, messages, websocket, ws_frames,
                   chat_sessions, notify_calls, normvars, chatvars>>

\* receive_json returns {"type": "ping"}
WsPing(c) ==
    /\ tasks[c].pc = "loop"
    /\ Produced < MaxMessages
    /\ \E accept \in BOOLEAN :
         LET m == on_ping(chat_sessions, sockets, c, tasks[c].session, accept)
         IN  /\ chat_sessions' = m.chat_sessions
             /\ sockets' = m.sockets
             /\ tasks' = [tasks EXCEPT ![c].pc = "ponging",
                                       ![c].awaiting = [to |-> c, frame |-> Pong, ok |-> accept]]
    /\ UNCHANGED <<store, call, req, bg, messages, websocket, ws_frames,
                   notify_calls, normvars, chatvars>>

\* the await of the pong ends; a failure is not caught by send_chat_message:
\* WebSocketDisconnect takes the handler to its except branch, any other
\* exception ends the handler
PongResume(c) ==
    /\ tasks[c].pc = "ponging"
    /\ \/ /\ tasks[c].awaiting.ok
          /\ tasks' = [tasks EXCEPT ![c].pc = "loop", ![c].awaiting = NoSend]
          /\ UNCHANGED chat_sessions
       \/ /\ ~tasks[c].awaiting.ok
          /\ tasks' = [tasks EXCEPT ![c].pc = "closed", ![c].awaiting = NoSend]
          /\ chat_sessions' = detach(chat_sessions, tasks[c].session)
       \/ /\ ~tasks[c].awaiting.ok
          /\ tasks' = [tasks EXCEPT ![c].pc = "crashed", ![c].awaiting = NoSend]
          /\ UNCHANGED chat_sessions
    /\ UNCHANGED <<store, call, req, bg, messages, websocket, ws_frames,
                   sockets, notify_calls, normvars, chatvars>>

\* receive_json returns {"type": "message", ...}
WsMessage(c) ==
    /\ tasks[c].pc = "loop"
    /\ Produced + 2 <= MaxMessages
    /\ \E accept \in BOOLEAN :
         LET s == tasks[c].session
             t1 == add_message(chat_sessions, s, "user", "hello")
             m == send_chat_message_call(t1, sockets, s, "received", accept)
         IN  /\ chat_sessions' = m.chat_sessions
             /\ sockets' = m.sockets
             /\ tasks' = [tasks EXCEPT ![c] = AfterCall(@, s, m, "loop")]
    /\ notify_calls' = notify_calls + 1
    /\ UNCHANGED <<store, call, req, bg, messages, websocket, ws_frames, normvars, chatvars>>

\* receive_json raises WebSocketDisconnect
WsDisconnect(c) ==
    /\ tasks[c].pc = "loop"
    /\ chat_sessions' = detach(chat_sessions, tasks[c].session)
    /\ tasks' = [tasks EXCEPT ![c].pc = "closed"]
    /\ UNCHANGED <<store, call, req, bg, messages, websocket, ws_frames,
                   sockets, notify_calls, normvars, chatvars>>

\* receive_json raises anything else (a frame that is not JSON): the
\* exception leaves websocket_endpoint, the except branch is not taken
WsCrash(c) ==
    /\ tasks[c].pc = "loop"
    /\ tasks' = [tasks EXCEPT ![c].pc = "crashed"]
    /\ UNCHANGED <<store, call, req, bg, messages, websocket, ws_frames,
                   chat_sessions, sockets, notify_calls, normvars, chatvars>>

\* a notification of a background run for the session (lines 1000, 1018)
BatchNotify(session_id) ==
    /\ tasks["batch"].pc = "idle"
    /\ InOrder("c1", session_id)
    /\ Produced < MaxMessages
    /\ \E accept \in BOOLEAN :
         LET m == send_chat_message_call(chat_sessions, sockets, session_id, "progress", accept)
         IN  /\ chat_sessions' = m.chat_sessions
             /\ sockets' = m.sockets
             /\ tasks' = [tasks EXCEPT !["batch"] = AfterCall(@, session_id, m, "idle")]
    /\ notify_calls' = notify_calls + 1
    /\ UNCHANGED <<store, call, req, bg, messages, websocket, ws_frames, normvars, chatvars>>

\* send_chat_message_endpoint for a message without an email address: the
\* user message, then the reply through send_chat_message
ChatPost(session_id) ==
    /\ tasks["chat"].pc = "idle"
    /\ InOrder("c1", session_id)
    /\ Produced + 2 <= MaxMessages
    /\ \E accept \in BOOLEAN :
         LET t1 == add_message(get_or_create_session(chat_sessions, session_id),
                               session_id, "user", "hello")
             m == send_chat_message_call(t1, sockets, session_id, "need_email", accept)
         IN  /\ chat_sessions' = m.chat_sessions
             /\ sockets' = m.sockets
             /\ tasks' = [tasks EXCEPT !["chat"] = AfterCall(@, session_id, m, "idle")]
    /\ notify_calls' = notify_calls + 1
    /\ UNCHANGED <<store, call, req, bg, messages, websocket, ws_frames, normvars, chatvars>>

\* ------------------------------------------- send_chat_message_endpoint
\* chat holds the locals of the request in progress: the email found in the
\* message, the record the handler got from the analysis (result), whether
\* the handler reached its `except Exception` branch, what it returned, and
\* how many requests were served.
NoChatResponse == [content |-> [kind |-> "none"]]

ChatNone ==
    [pc |-> "idle", email |-> NoEmail, result |-> NoResult, excepted |-> FALSE,
     response |-> NoChatResponse, served |-> 0]

\* the format spec written after the colon of line 798
ConfidenceFormatSpec == ".2f if result.confidence_score else 0"

\* format specs that float.__format__ accepts, as far as the handler goes
FloatFormatSpecs == {"", ".2f"}

\* (variant: every format spec is accepted)
format_returns_always(spec) == TRUE

\* format(value, spec) of the f-string: a spec that is not a format spec
\* raises ValueError (TypeError when the value is None)
format_returns(spec) == spec \in FloatFormatSpecs

\* the `except Exception` branch of the handler: the error message through
\* send_chat_message, and the response that carries it
ChatFailed(c, log, ws, frames, push_ok) ==
    LET m == send_chat_message(log, ws, frames, [kind |-> "error"], push_ok)
    IN  [chat |-> [c EXCEPT !.pc = "idle", !.excepted = TRUE, !.served = @ + 1,
                            !.response = [content |-> [kind |-> "error"]]],
         messages |-> m.messages, ws_frames |-> m.ws_frames]

\* the handler for a message that contains an email, up to its return for
\* a domain fresh in the short window, to its except branch, or to the
\* await of run_in_executor
ChatEmail(email) ==
    /\ chat.pc = "idle"
    /\ chat.served < MaxChats
    /\ \E e \in BgSyncEnvs, push_ok \in BOOLEAN :
         LET c0 == [ChatNone EXCEPT !.email = email, !.served = chat.served]
             log0 == Append(messages, [message_type |-> "user",
                                       content |-> [kind |-> "user", email |-> email]])
             dup == check_domain_exists(store, extract_domain_from_email(email),
                                        ShortWindowHours)
             content == IF dup THEN [kind |-> "already_processed", email |-> email]
                        ELSE [kind |-> "processing", email |-> email]
             m == send_chat_message(log0, websocket, ws_frames, content, push_ok)
             f == ChatFailed(c0, log0, websocket, ws_frames, push_ok)
         IN  IF e # "ok"
             THEN /\ chat' = f.chat
                  /\ messages' = f.messages
                  /\ ws_frames' = f.ws_frames
             ELSE /\ chat' = IF dup
                             THEN [c0 EXCEPT !.served = @ + 1,
                                             !.response = [content |-> content]]
                             ELSE [c0 EXCEPT !.pc = "analyzing"]
                  /\ messages' = m.messages
                  /\ ws_frames' = m.ws_frames
    /\ UNCHANGED <<store, call, req, bg, websocket, hubvars, normvars, uninserted>>

\* the handler from the completion of run_in_executor to its return: the
\* insert, the conversion, the text of the reply, the reply through
\* send_chat_message, and the response
ChatResume ==
    /\ chat.pc = "analyzing"
    /\ \E e \in AsyncEnvs, push_ok \in BOOLEAN :
         LET df == analyze_email_domain(chat.email, e.an)
             st1 == IF e.an # "raise" /\ e.ins = "ok" THEN insert_dataframe(store, df) ELSE store
             converted == e.an # "raise" /\ e.ins # "raise" /\ e.conv_ok
             c1 == IF converted
                   THEN [chat EXCEPT !.result = dataframe_to_analysis_result(df, FALSE)[1]]
                   ELSE chat
             content == [kind |-> "analysis", analysis_result |-> c1.result]
             m == send_chat_message(messages, websocket, ws_frames, content, push_ok)
             f == ChatFailed(c1, messages, websocket, ws_frames, push_ok)
         IN  /\ store' = st1
             /\ uninserted' = Uninserted(uninserted, e.an)
             /\ IF converted /\ format_returns(ConfidenceFormatSpec)
                THEN /\ chat' = [c1 EXCEPT !.pc = "idle", !.served = @ + 1,
                                           !.response = [content |-> content]]
                     /\ messages' = m.messages
                     /\ ws_frames' = m.ws_frames
                ELSE /\ chat' = f.chat
                     /\ messages' = f.messages
                     /\ ws_frames' = f.ws_frames
    /\ UNCHANGED <<call, req, bg, websocket, hubvars, normvars>>

\* ---------------------------------------------------------- specifications

TaskNone(t) ==
    [pc |-> IF t \in Conns THEN "new" ELSE "idle", session |-> NoSessionId,
     awaiting |-> NoSend]

\* the process after startup: nothing stored, no request, no session
InitServer ==
    /\ store = [d \in Domains |-> NoRow]
    /\ call = CallNone
    /\ req = ReqNone
    /\ bg = BgNone
    /\ messages = << >>
    /\ websocket = None
    /\ ws_frames = << >>
    /\ chat_sessions = [s \in {} |-> ChatSession(0)]
    /\ tasks = [t \in TaskIds |-> TaskNone(t)]
    /\ sockets = [c \in Conns |-> << >>]
    /\ notify_calls = 0
    /\ cleaned = NoOutput
    /\ chat = ChatNone
    /\ uninserted = 0

Init ==
    /\ InitServer
    /\ upload = NoUpload

NextApi ==
    \/ \E d \in Domains : Tick(d)
    \/ \E email \in Emails, force_refresh \in BOOLEAN : AnalyzeEmail(email, force_refresh)
    \/ AnalyzeEmailResume
    \/ \E n \in 1..MaxReqEmails, force_refresh \in BOOLEAN : BatchAnalyze(n, force_refresh)
    \/ \E email \in Emails : BatchItemBegin(email)
    \/ BatchItemResume
    \/ BatchRespond

SpecApi == Init /\ [][NextApi]_vars

\* The session hub: two connections, a background run and the chat endpoint
\* use the session table concurrently.
NextHub ==
    \/ \E c \in Conns, s \in SessionIds : WsConnect(c, s)
    \/ \E t \in TaskIds : SendResume(t)
    \/ \E c \in Conns : WsPing(c)
    \/ \E c \in Conns : PongResume(c)
    \/ \E c \in Conns : WsMessage(c)
    \/ \E c \in Conns : WsDisconnect(c)
    \/ \E c \in Conns : WsCrash(c)
    \/ \E s \in SessionIds : BatchNotify(s)
    \/ \E s \in SessionIds : ChatPost(s)

SpecHub == Init /\ [][NextHub]_vars

\* The chat endpoint serves messages that carry an email, one at a time.
NextChat ==
    \/ \E d \in Domains : Tick(d)
    \/ \E email \in Emails : ChatEmail(email)
    \/ ChatResume

SpecChat == Init /\ [][NextChat]_vars

\* The units of work that analyse emails run on one event loop and share
\* the store: a resolve through POST /analyze, a chat message and a
\* background run each suspend at the await of run_in_executor. No unit
\* forces a refresh, and the units overlap within the short window, so no
\* row ages while they run.
NextRace ==
    \/ \E email \in Emails : AnalyzeEmail(email, FALSE)
    \/ AnalyzeEmailResume
    \/ \E email \in Emails : chat.served < MaxRaceWork /\ ChatEmail(email)
    \/ ChatResume
    \/ \E n \in 1..MaxRaceWork : UploadCsv(n)
    \/ \E email \in Emails : BgItemBegin(email)
    \/ BgItemResume
    \/ BgFinal

SpecRace == Init /\ [][NextRace]_vars

\* clean_email_dataframe applied to every column of at most MaxRows cells
\* and every behaviour of the store client
InitNorm ==
    /\ InitServer
    /\ upload \in [kind : {"csv"}, column : Columns, bq_client : BqClients]

NextNorm == Normalize

SpecNorm == InitNorm /\ [][NextNorm]_vars

\* During a batch run a row may leave the short window; the run does not
\* outlast the long one.
NextCsv ==
    \/ \E d \in Domains : store[d] <= ShortWindowHours /\ Tick(d)
    \/ \E n \in 1..MaxEmails : UploadCsv(n)
    \/ \E email \in Emails : BgItemBegin(email)
    \/ BgItemResume
    \/ BgFinal

SpecCsv == Init /\ [][NextCsv]_vars

\* A background run whose coroutine is resumed whenever it can run: the
\* event loop runs every ready task, and every analysis and store call the
\* run awaits completes.
BgStep ==
    \/ \E email \in Emails : BgItemBegin(email)
    \/ BgItemResume
    \/ BgFinal

NextCsvFair ==
    \/ \E d \in Domains : store[d] <= ShortWindowHours /\ Tick(d)
    \/ \E n \in 1..MaxFairEmails : UploadCsv(n)
    \/ BgStep

SpecCsvFair == Init /\ [][NextCsvFair]_vars /\ WF_vars(BgStep)

\* ------------------------------------------------------------------ claims
Returned == call.outcome = "returned"

\* C1: a call with force_refresh=false whose freshness check returned true
\* and whose fetch returned a row never invokes the analysis or the insert,
\* and the record it returns is marked from_cache.
C1_CacheHit ==
    (~call.force_refresh /\ call.checked = "true" /\ call.fetched = "rows")
        => /\ call.analysed = 0
           /\ call.inserted = "none"
           /\ call.outcome \in {"returned", "raised"}
           /\ Returned => call.result.from_cache

\* the scenario of C1: the domain is fresh within 24 hours from another
\* address, and the call returns that stored record
C1_Witness ==
    /\ Returned /\ ~call.force_refresh
    /\ call.checked = "true" /\ call.fetched = "rows"
    /\ call.row_age <= ShortWindowHours /\ call.row_age # NoRow
    /\ call.result.from_cache
    /\ call.result.original_email # call.email

\* C2: a call with force_refresh=true never reads the store, invokes the
\* analysis whatever the store holds for the domain, and a record it returns
\* is the computed one with from_cache=false.
C2_ForceRefresh ==
    (call.force_refresh /\ call.domain # NoDomain)
        => /\ call.checked = "skipped"
           /\ call.fetched = "none"
           /\ call.analysed = 1
           /\ call.outcome \in {"awaiting", "returned", "raised"}
           /\ Returned => /\ ~call.result.from_cache
                          /\ call.result.original_email = call.email

C2_Witness ==
    /\ Returned /\ call.force_refresh
    /\ call.row_age # NoRow /\ call.row_age <= ShortWindowHours
    /\ call.analysed = 1 /\ ~call.result.from_cache

\* The domain of the call had, at entry, a row written by an earlier call
\* (the only writer under SpecApi) that is still inside the long window.
AnalysedBefore == call.row_age # NoRow /\ call.row_age <= LongWindowHours

C4_FaultIsolated ==
    /\ [](bg.pc = "done" => bg.i = bg.total_emails)
    /\ [][bg'.faults # bg.faults =>
            /\ bg'.faults = bg.faults + 1
            /\ bg'.failed = bg.failed + 1
            /\ bg'.processed = bg.processed + 1
            /\ bg'.i = bg.i + 1
            /\ bg'.successful = bg.successful
            /\ bg'.duplicates = bg.duplicates
            /\ bg'.total_emails = bg.total_emails
            /\ bg'.pc = "loop"]_vars

\* an item is being analysed after an earlier item faulted
C4_Witness ==
    /\ bg.pc = "analyzing"
    /\ bg.faults >= 1
    /\ bg.failed >= 1

IsKind(i, kind) == messages[i].content.kind = kind

\* C5: the final summary reports processed = N and
\* successful + failed + duplicates = processed.
C5_FinalSummary ==
    /\ \A i \in 1..Len(messages) :
         IsKind(i, "final") =>
            LET c == messages[i].content
            IN  /\ c.total = bg.total_emails
                /\ c.processed = c.total
                /\ c.successful + c.failed + c.duplicates = c.processed
    /\ bg.pc = "done" => IsKind(Len(messages), "final")

\* a finished run that saw a success, a failed status, a duplicate and a fault
C5_Witness ==
    /\ bg.pc = "done"
    /\ IsKind(Len(messages), "final")
    /\ bg.successful >= 1
    /\ bg.duplicates >= 1
    /\ bg.faults >= 1
    /\ bg.failed > bg.faults

\* C6 as stated: when the run is over, every k in 1..N that is a multiple of
\* the cadence or equals N has a progress message reporting processed = k.
C6_ProgressAtEveryDueCount ==
    bg.pc = "done" =>
        \A k \in 1..bg.total_emails :
            ProgressDue(k, bg.total_emails) =>
                \E i \in 1..Len(messages) :
                    IsKind(i, "progress") /\ messages[i].content.processed = k

\* C7: every progress message reports a count that is a multiple of 10 or
\* N, and the counts of successive progress messages never decrease.
C7_ProgressCounts ==
    /\ \A i \in 1..Len(messages) :
         IsKind(i, "progress") =>
            \/ messages[i].content.processed % 10 = 0
            \/ messages[i].content.processed = bg.total_emails
    /\ \A i, j \in 1..Len(messages) :
         (i < j /\ IsKind(i, "progress") /\ IsKind(j, "progress"))
            => messages[i].content.processed <= messages[j].content.processed

\* a run of 11 with a progress message at 10 and one at 11
C7_Witness ==
    \E i, j \in 1..Len(messages) :
        /\ i < j
        /\ IsKind(i, "progress") /\ messages[i].content.processed = Cadence
        /\ IsKind(j, "progress") /\ messages[j].content.processed = Cadence + 1
        /\ bg.total_emails = Cadence + 1

\* C8: the processed counter of a run equals the number of items handled,
\* never exceeds total_emails, and a step leaves it or raises it by one.
C8_ItemsDone ==
    /\ [](bg.processed = bg.i /\ bg.processed <= bg.total_emails)
    /\ [][\/ bg'.processed = bg.processed
          \/ bg'.processed = bg.processed + 1 /\ bg'.i = bg.i + 1]_vars

C8_Witness ==
    /\ bg.pc = "done"
    /\ bg.total_emails >= 2
    /\ bg.processed = bg.total_emails
    /\ bg.faults >= 1 /\ bg.duplicates >= 1

LastResult == req.results[Len(req.results)]

C10_InsertFailure ==
    /\ [](call.checked = "false" => call.analysed = 1)
    /\ [][(call.outcome = "awaiting" /\ call'.inserted = "failed") =>
            /\ store' = store
            /\ call.checked = "false" =>
                  ~check_domain_exists(store', call.domain, LongWindowHours)
            /\ call'.converted # "raised" =>
                  /\ call'.outcome = "returned"
                  /\ ~call'.result.from_cache
                  /\ call'.result.extracted_domain = call.domain
                  /\ call'.result.original_email = call.email]_vars

C10_Witness ==
    /\ Returned
    /\ call.inserted = "failed"
    /\ call.checked = "false"
    /\ ~call.result.from_cache
    /\ store[call.domain] = NoRow

\* ------------------------------------------------- claims: session hub
IsPrefix(a, b) == Len(a) <= Len(b) /\ SubSeq(b, 1, Len(a)) = a

Log(table, s) == IF s \in DOMAIN table THEN table[s].messages ELSE << >>

SystemMessages(table, s) ==
    SelectSeq(Log(table, s), LAMBDA m : m.message_type = "system")

\* a task passes from before websocket.accept() into the handler
ConnectStep(c) == tasks[c].pc = "new" /\ tasks'[c].pc # "new"

\* a handler takes its `except WebSocketDisconnect` branch
DisconnectStep(c) == tasks[c].pc \in {"loop", "ponging"} /\ tasks'[c].pc = "closed"

\* C11: every call of send_chat_message appends exactly one system message
\* to the log of its session, with no connection attached, with a push that
\* succeeds and with a push that fails; a failed push never reaches the
\* caller as an exception.
C11_NotifyAppendsOne ==
    /\ notify_calls = Len(SystemMessages(chat_sessions, "s1"))
                        + Len(SystemMessages(chat_sessions, "s2"))
    /\ \A t \in TaskIds : tasks[t].pc # "raised"

\* s1 was notified three times with c1 attached, the second push failed and
\* its caller went on; s2 was notified with no connection
C11_Witness ==
    /\ DOMAIN chat_sessions = SessionIds
    /\ tasks["c1"].pc = "loop" /\ tasks["c1"].session = "s1"
    /\ tasks["c2"].pc = "new"
    /\ tasks["batch"].pc = "idle"
    /\ Len(chat_sessions["s1"].messages) = 3
    /\ Len(sockets["c1"]) = 2
    /\ sockets["c1"][1].message_id = chat_sessions["s1"].messages[1].message_id
    /\ sockets["c1"][2].message_id = chat_sessions["s1"].messages[3].message_id
    /\ Len(chat_sessions["s2"].messages) = 1
    /\ notify_calls = 4

\* C12: the log of a session only grows at its end: in every step the log
\* before the step is a prefix of the log after it.
C12_AppendOnly ==
    [][\A s \in SessionIds : IsPrefix(Log(chat_sessions, s), Log(chat_sessions', s))]_vars

\* three notifications logged with no connection, in their order, then the
\* welcome of the connection that attached
C12_Witness ==
    /\ "s1" \in DOMAIN chat_sessions
    /\ chat_sessions["s1"].websocket = "c1"
    /\ Len(chat_sessions["s1"].messages) = 4
    /\ \A i \in 1..3 : /\ chat_sessions["s1"].messages[i].content = "progress"
                       /\ chat_sessions["s1"].messages[i].message_id = i
    /\ chat_sessions["s1"].messages[4].content = "welcome"

\* position of the message with the given id in the log of s, 0 if absent
PosInLog(s, id) ==
    IF \E k \in 1..Len(Log(chat_sessions, s)) : Log(chat_sessions, s)[k].message_id = id
    THEN CHOOSE k \in 1..Len(Log(chat_sessions, s)) : Log(chat_sessions, s)[k].message_id = id
    ELSE 0

\* C13: the message frames a connection has been handed are messages of the
\* log of its session, in the order of the log, whichever tasks notified
\* and however their awaits interleaved.
C13_PushOrder ==
    \A c \in Conns :
        \A i \in 1..Len(sockets[c]), j \in 1..Len(sockets[c]) :
            (sockets[c][i] # Pong /\ sockets[c][j] # Pong /\ i < j) =>
                /\ PosInLog(tasks[c].session, sockets[c][i].message_id) > 0
                /\ PosInLog(tasks[c].session, sockets[c][i].message_id)
                     < PosInLog(tasks[c].session, sockets[c][j].message_id)

\* the background run and the chat endpoint are both suspended in a push to
\* c1, which has been handed the welcome and their two messages
C13_Witness ==
    /\ tasks["batch"].pc = "sending" /\ tasks["batch"].awaiting.to = "c1"
    /\ tasks["batch"].awaiting.ok
    /\ tasks["chat"].pc = "sending" /\ tasks["chat"].awaiting.to = "c1"
    /\ tasks["chat"].awaiting.ok
    /\ Len(sockets["c1"]) = 3

\* C14: a connect stores the new connection as the handle of its session
\* whatever was stored, and the handle of a session changes in no step
\* other than a connect or a disconnect for that session; the handle is one
\* connection or none.
C14_AttachReplaces ==
    [][/\ \A c \in Conns :
            ConnectStep(c) => chat_sessions'[tasks'[c].session].websocket = c
       /\ \A s \in DOMAIN chat_sessions :
            /\ chat_sessions'[s].websocket \in Conns \cup {None}
            /\ chat_sessions'[s].websocket # chat_sessions[s].websocket =>
                  \E c \in Conns : /\ ConnectStep(c) \/ DisconnectStep(c)
                                   /\ tasks'[c].session = s]_vars

\* c2 is the handle of s1 while c1, attached to s1 before, is still open
C14_Witness ==
    /\ "s1" \in DOMAIN chat_sessions
    /\ chat_sessions["s1"].websocket = "c2"
    /\ tasks["c1"].session = "s1" /\ tasks["c1"].pc = "loop"
    /\ tasks["c2"].session = "s1"

\* C15: the handle of a session is cleared only in the disconnect step of a
\* connection opened for that session, and a handle is installed only in
\* the connect step of a connection that was never connected before, so a
\* cleared handle stays absent until a new connection comes and the handle
\* of a disconnected connection does not come back.
C15_DetachOnlyByDisconnect ==
    [][\A s \in DOMAIN chat_sessions :
          /\ (chat_sessions[s].websocket # None /\ chat_sessions'[s].websocket = None) =>
                \E c \in Conns : DisconnectStep(c) /\ tasks[c].session = s
          /\ (chat_sessions'[s].websocket # None
                /\ chat_sessions'[s].websocket # chat_sessions[s].websocket) =>
                /\ tasks[chat_sessions'[s].websocket].pc = "new"
                /\ tasks'[chat_sessions'[s].websocket].session = s]_vars

\* c1 has disconnected from s1, c2 is attached to s2 and still is
C15_Witness ==
    /\ DOMAIN chat_sessions = SessionIds
    /\ tasks["c1"].pc = "closed" /\ tasks["c1"].session = "s1"
    /\ chat_sessions["s1"].websocket = None
    /\ tasks["c2"].session = "s2"
    /\ chat_sessions["s2"].websocket = "c2"

\* C16: an entry of the session table is never removed or replaced: in
\* every step a session that exists is still the same object afterwards and
\* has kept the messages it had.
C16_SessionKept ==
    [][\A s \in DOMAIN chat_sessions :
          /\ s \in DOMAIN chat_sessions'
          /\ chat_sessions'[s].uid = chat_sessions[s].uid
          /\ \A i \in 1..Len(chat_sessions[s].messages) :
                chat_sessions'[s].messages[i] = chat_sessions[s].messages[i]]_vars

\* s1 was referenced by the background run, by a connect and by the chat
\* endpoint and holds what each of them logged
C16_Witness ==
    /\ "s1" \in DOMAIN chat_sessions
    /\ chat_sessions["s1"].uid = 1
    /\ Len(chat_sessions["s1"].messages) = 4
    /\ chat_sessions["s1"].messages[1].content = "progress"
    /\ chat_sessions["s1"].messages[2].content = "welcome"
    /\ chat_sessions["s1"].messages[4].content = "need_email"

\* C17: the step that handles a ping leaves the session table, and so every
\* log, as it was, and the connection that takes the reply is handed a pong
\* and nothing else; no other connection is handed anything.
C17_PingPong ==
    [][\A c \in Conns :
          (tasks[c].pc = "loop" /\ tasks'[c].pc = "ponging") =>
              /\ chat_sessions' = chat_sessions
              /\ tasks'[c].awaiting.ok => sockets'[c] = Append(sockets[c], Pong)
              /\ \A d \in Conns \ {c} : sockets'[d] = sockets[d]]_vars

\* c1 got its welcome and then a pong, and is back in its receive loop
C17_Witness ==
    /\ tasks["c1"].pc = "loop"
    /\ Len(sockets["c1"]) = 2
    /\ sockets["c1"][2] = Pong
    /\ Len(Log(chat_sessions, tasks["c1"].session)) = 1

\* --------------------------------------------------- claims: normalizer
\* the elements of v whose value does not occur at a smaller index
FirstOccurrences(v) ==
    LET f[k \in 0..Len(v)] ==
            IF k = 0 THEN << >>
            ELSE IF \A j \in 1..(k - 1) : v[j] # v[k] THEN Append(f[k - 1], v[k])
            ELSE f[k - 1]
    IN  f[Len(v)]

RECURSIVE IsSubsequence(_, _)
IsSubsequence(a, b) ==
    IF a = << >> THEN TRUE
    ELSE IF b = << >> THEN FALSE
    ELSE IF Head(a) = Head(b) THEN IsSubsequence(Tail(a), Tail(b))
    ELSE IsSubsequence(a, Tail(b))

\* C18: the returned list holds no value twice and is a subsequence of the
\* first occurrences of the cleaned valid values of the column, with no
\* store client, with one that answers and with one that fails.
C18_UniqueInOrder ==
    cleaned.kind = "returned" =>
        /\ \A i \in 1..Len(cleaned.final_emails), j \in 1..Len(cleaned.final_emails) :
              i # j => cleaned.final_emails[i] # cleaned.final_emails[j]
        /\ IsSubsequence(cleaned.final_emails,
                         FirstOccurrences(valid_emails(upload.column)))

\* a column whose cleaned values repeat, one of whose domains the store
\* knows; what is left is returned
C18_Witness ==
    /\ cleaned.kind = "returned"
    /\ cleaned.stats.duplicates_removed > 0
    /\ cleaned.stats.bigquery_duplicates > 0
    /\ Len(cleaned.final_emails) > 0

\* C19: when the query of the store fails, clean_email_dataframe returns,
\* and its list is the whole list of first occurrences of the cleaned valid
\* values, in their order.
C19_QueryFailureKeepsAll ==
    (upload.kind = "csv" /\ upload.bq_client.kind = "raises" /\ cleaned # NoOutput) =>
        /\ cleaned.kind = "returned"
        /\ cleaned.final_emails = FirstOccurrences(valid_emails(upload.column))
        /\ cleaned.stats.new_emails = Len(cleaned.final_emails)

\* the query failed for a column with two distinct valid emails, one of
\* them twice
C19_Witness ==
    /\ upload.kind = "csv" /\ upload.bq_client.kind = "raises"
    /\ cleaned.kind = "returned"
    /\ Len(cleaned.final_emails) = 2
    /\ cleaned.stats.duplicates_removed = 1

\* --------------------------------------------- claims: batch run and loop
\* C20: a background run does not handle an item without reaching an await
\* right after another item it handled without reaching one: between two
\* consecutive items the event loop gets its turn.
C20_YieldBetweenItems ==
    [][~(bg.pc = "loop" /\ bg.unyielded /\ bg'.pc = "loop" /\ bg'.i = bg.i + 1)]_vars

\* -------------------------------------------- claims: connections, again
\* a handler that accepted its websocket and has not ended
IsOpen(c) == tasks[c].pc \in {"sending", "loop", "ponging"}

\* the connection that attached to s last (c2 is accepted after c1)
LastAttached(s) ==
    IF tasks["c2"].session = s THEN "c2"
    ELSE IF tasks["c1"].session = s THEN "c1"
    ELSE None

\* C22: while the connection that attached to a session last is open, it is
\* the handle of the session, whichever older connection has disconnected.
C22_NewestStaysAttached ==
    \A s \in DOMAIN chat_sessions :
        (LastAttached(s) # None /\ IsOpen(LastAttached(s))) =>
            chat_sessions[s].websocket = LastAttached(s)

\* the replies that follow a user message in the same call
Replies == {"need_email", "received"}

\* C27: whatever tasks append to a session concurrently, its log holds every
\* appended message once and in the order of the appends: message ids grow
\* along the log, every call of send_chat_message has its message in a log,
\* and a reply stands right behind the user message its caller stored
\* before it.
C27_NothingLostOrDuplicated ==
    /\ \A s \in DOMAIN chat_sessions :
          LET log == chat_sessions[s].messages
          IN  /\ \A i \in 1..Len(log), j \in 1..Len(log) :
                    i < j => log[i].message_id < log[j].message_id
              /\ \A i \in 1..Len(log) :
                    log[i].content \in Replies =>
                        /\ i > 1
                        /\ log[i - 1].message_type = "user"
                        /\ log[i - 1].message_id + 1 = log[i].message_id
              /\ \A i \in 1..Len(log) :
                    log[i].message_type = "user" =>
                        /\ i < Len(log)
                        /\ log[i + 1].content \in Replies
    /\ notify_calls = Len(SystemMessages(chat_sessions, "s1"))
                        + Len(SystemMessages(chat_sessions, "s2"))

\* the background run, the chat endpoint and the handler of c1 appended to
\* s1 while each other's pushes were in flight
C27_Witness ==
    /\ "s1" \in DOMAIN chat_sessions
    /\ Len(chat_sessions["s1"].messages) = 4
    /\ chat_sessions["s1"].messages[1].content = "welcome"
    /\ chat_sessions["s1"].messages[2].content = "progress"
    /\ chat_sessions["s1"].messages[4].content = "need_email"
    /\ tasks["c1"].pc = "sending"
    /\ tasks["batch"].pc = "sending"
    /\ tasks["chat"].pc = "sending"

\* ------------------------------------------------ claims: resolve, again
\* C28: a call without force_refresh whose freshness check was positive and
\* whose fetch came back empty goes on to the analysis; it raises only when
\* the analysis, the insert or the conversion raises, a successful insert
\* leaves the domain fresh, and what it returns carries from_cache=false.
C28_EmptyFetchFallsThrough ==
    /\ []((~call.force_refresh /\ call.checked = "true" /\ call.fetched = "empty") =>
            /\ call.analysed = 1
            /\ call.outcome \in {"awaiting", "returned", "raised"}
            /\ call.outcome = "raised" =>
                  \/ call.inserted \in {"none", "raise"}
                  \/ call.converted = "raised"
            /\ call.outcome = "returned" =>
                  /\ ~call.result.from_cache
                  /\ call.inserted \in {"ok", "failed"}
                  /\ call.result.extracted_domain = call.domain)
    /\ [][(call.fetched = "empty" /\ call.outcome = "awaiting" /\ call'.inserted = "ok") =>
            check_domain_exists(store', call.domain, ShortWindowHours)]_vars

\* a row was there, its fetch came back empty, the call analysed, stored
\* and returned
C28_Witness ==
    /\ Returned
    /\ ~call.force_refresh
    /\ call.row_age # NoRow
    /\ call.checked = "true" /\ call.fetched = "empty"
    /\ call.inserted = "ok"
    /\ ~call.result.from_cache
    /\ store[call.domain] = 0

\* ------------------------------------------- claims: normalizer, again
\* C30: in the report of every run, total_rows is the sum of empty_rows,
\* invalid_emails, duplicates_removed and valid_emails; valid_emails is the
\* sum of bigquery_duplicates and new_emails; and new_emails is the length
\* of the returned list, with no store client, with one that answers and
\* with one that fails.
C30_ReportAddsUp ==
    cleaned.kind = "returned" =>
        /\ cleaned.stats.total_rows =
              cleaned.stats.empty_rows + cleaned.stats.invalid_emails
                + cleaned.stats.duplicates_removed + cleaned.stats.valid_emails
        /\ cleaned.stats.valid_emails =
              cleaned.stats.bigquery_duplicates + cleaned.stats.new_emails
        /\ cleaned.stats.new_emails = Len(cleaned.final_emails)

\* an empty row, an email whose domain the store knows and a new one
C30_Witness ==
    /\ cleaned.kind = "returned"
    /\ upload.bq_client.kind = "answers"
    /\ cleaned.stats.total_rows = 3
    /\ cleaned.stats.empty_rows = 1
    /\ cleaned.stats.bigquery_duplicates = 1
    /\ cleaned.stats.new_emails = 1

\* -------------------------------------------- claims: batch run, again
\* C23: a background run starts the analysis of an item only when the
\* store holds no row for the item's domain inside the long window; an item
\* whose domain has such a row is served from the store.
C23_BatchUsesStoredRecord ==
    [][(bg.pc = "loop" /\ bg'.pc = "analyzing") =>
          ~check_domain_exists(store, extract_domain_from_email(bg'.email),
                               LongWindowHours)]_vars

\* the messages of the given kind in the log of the run's session
Positions(kind) == {i \in 1..Len(messages) : IsKind(i, kind)}

\* the results a finished run has produced: one per item that was analysed,
\* stored and converted
ResultsProduced == bg.successful + bg.failed - bg.faults

\* C26: a run that has reached the end of its list has logged exactly one
\* final summary, behind every progress message; the summary carries the
\* totals of the run and its results are the last ResultWindow results the
\* run produced, or all of them when there are fewer, in the order of
\* production.
C26_FinalCarriesLastResults ==
    bg.pc = "done" =>
        /\ Cardinality(Positions("final")) = 1
        /\ \A i \in Positions("progress"), j \in Positions("final") : i < j
        /\ LET c == messages[Len(messages)].content
               n == ResultsProduced
               m == IF n > ResultWindow THEN ResultWindow ELSE n
           IN  /\ c.kind = "final"
               /\ c.total = bg.total_emails /\ c.processed = bg.processed
               /\ c.successful = bg.successful /\ c.failed = bg.failed
               /\ c.duplicates = bg.duplicates
               /\ Len(c.results) = m
               /\ \A k \in 1..m : c.results[k] = n - m + k

\* a run that produced one result more than the summary carries
C26_Witness ==
    /\ bg.pc = "done"
    /\ ResultsProduced = ResultWindow + 1
    /\ Len(messages[Len(messages)].content.results) = ResultWindow
    /\ messages[Len(messages)].content.results[1] = 2
    /\ Positions("progress") # {}

\* C24: a chat request whose domain was not fresh within 24 hours and for
\* which the analysis produced a record ends with a system message on the
\* session log that carries the record, with a response that carries the same
\* record, and without the error message of the except branch.
C24_ChatDeliversRecord ==
    (chat.pc = "idle" /\ chat.result # NoResult)
        => /\ ~chat.excepted
           /\ Len(messages) > 0
           /\ messages[Len(messages)] =
                  [message_type |-> "system",
                   content |-> [kind |-> "analysis", analysis_result |-> chat.result]]
           /\ chat.response.content =
                  [kind |-> "analysis", analysis_result |-> chat.result]

InFlight(d) ==
    {u \in {"resolve", "chat", "batch_run"} :
        \/ u = "resolve" /\ req.pc = "await"
              /\ extract_domain_from_email(call.email) = d
        \/ u = "chat" /\ chat.pc = "analyzing"
              /\ extract_domain_from_email(chat.email) = d
        \/ u = "batch_run" /\ bg.pc = "analyzing"
              /\ extract_domain_from_email(bg.email) = d}

\* C21: of the units of work that handle emails of one domain without
\* force_refresh, at most one has the analysis in flight at any time, and no
\* unit starts the analysis of a domain that has a row in the store.
C21_AtMostOneAnalysis ==
    /\ [](\A d \in Domains : Cardinality(InFlight(d)) <= 1)
    /\ [][\A d \in Domains :
            (InFlight(d)' \ InFlight(d) # {}) => store[d] = NoRow]_vars

\* C29: when every awaited call completes, a scheduled background run
\* reaches its end, and at its end the last message of the session log is
\* the final summary.
C29_RunEndsWithSummary ==
    /\ (bg.pc \in {"loop", "analyzing"}) ~> (bg.pc = "done")
    /\ [](bg.pc = "done" =>
             /\ Len(messages) > 0
             /\ messages[Len(messages)] =
                    [message_type |-> "system", content |-> FinalMsg(bg)])

\* a run that skipped a duplicate, caught a fault and analysed an email has
\* ended
C29_Witness ==
    /\ bg.pc = "done"
    /\ bg.duplicates > 0 /\ bg.faults > 0 /\ bg.successful > 0

====
